---- MODULE Spec2Model ----
(***************************************************************************)
(* Model of src/main.py: the YouTrack -> Postgres synchronisation script.  *)
(*                                                                         *)
(*   get_custom_field_value, parse_time_string   pure helpers              *)
(*   get_issues                                  paginated fetch + mapping *)
(*   make_migrations, insert_into_postgres       storage                   *)
(*   main                                        orchestration             *)
(*                                                                         *)
(* Strings are sequences of one-character strings.  The four Cyrillic unit *)
(* letters of parse_time_string are written with ASCII stand-ins:          *)
(*   "n" = U+043D (weeks), "d" = U+0434 (days), "c" = U+0447 (hours),      *)
(*   "m" = U+043C (minutes).                                               *)
(* JSON / Python values are tagged records, so that values of different    *)
(* Python types can be compared.                                           *)
(***************************************************************************)
EXTENDS Integers, Sequences, FiniteSets, TLC

VARIABLES
    \* ---- main / get_issues / insert_into_postgres (specification Spec)
    pc,            \* position of main
    connOpen,      \* conn is open
    committed,     \* the committed database: [exists, rows]
    serial,        \* last value of the id column's sequence (not transactional)
    txn,           \* rows of the table as conn's open transaction sees them
    txnOpen,       \* a transaction is in progress on conn
    start,         \* get_issues: start
    all_issues,    \* get_issues: all_issues
    issues,        \* main: issues (the value get_issues returned)
    idx,           \* insert_into_postgres: number of entities already executed
    requested,     \* history: $skip and $top of every request of this run
    served,        \* history: the body of every 200 response of this run
    lastStatus,    \* history: status code of the last response of this run
    tableAtStart,  \* history: committed rows when insert_into_postgres began
    stages,        \* history: the stages of this run that have completed
    \* ---- parse_time_string (specification SpecParse)
    time_string, parsed,
    \* ---- get_custom_field_value (specification SpecField)
    custom_fields, field_name, field_value,
    \* ---- the record -> Issue mapping of get_issues (specification SpecMap)
    issue, mapped

pipeVars  == <<pc, connOpen, committed, serial, txn, txnOpen, start, all_issues,
               issues, idx, requested, served, lastStatus, tableAtStart, stages>>
parseVars == <<time_string, parsed>>
fieldVars == <<custom_fields, field_name, field_value>>
mapVars   == <<issue, mapped>>
helperVars == <<parseVars, fieldVars, mapVars>>
vars      == <<pipeVars, helperVars>>

-----------------------------------------------------------------------------
(* Bounds of the model *)

MaxLen      == 4   \* longest enumerated duration string
MaxFields   == 2   \* longest enumerated customFields list
MaxSerial   == 4   \* the server stops serving records when the id sequence gets here

-----------------------------------------------------------------------------
(* Python / JSON values *)

None    == [t |-> "None"]                 \* Python None, JSON null
Missing == [t |-> "missing"]              \* key not in the dict
Str(s)  == [t |-> "str", v |-> s]
PyInt(n) == [t |-> "int", v |-> n]
Dict(p, n) == [t |-> "dict", presentation |-> p, name |-> n]
Raise(e) == [t |-> "raise", exc |-> e]

Raised(x) == x.t = "raise"

\* Python truthiness of a value
Truthy(x) ==
    CASE x.t = "None" -> FALSE
      [] x.t = "str"  -> x.v # <<>>
      [] x.t = "int"  -> x.v # 0
      [] OTHER        -> TRUE

\* dict.get(key, default): the default is used only when the key is missing
Get(x, default) == IF x = Missing THEN default ELSE x

\* All sequences over S of length at most n
SeqsUpTo(S, n) == UNION {[1..k -> S] : k \in 0..n}

RECURSIVE Concat(_)
Concat(ss) == IF ss = <<>> THEN <<>> ELSE Head(ss) \o Concat(Tail(ss))

-----------------------------------------------------------------------------
(* parse_time_string, src/main.py 35-47 *)

Digits == {"0", "1", "2", "3", "4", "5", "6", "7", "8", "9"}

DigitVal(ch) ==
    CASE ch = "0" -> 0 [] ch = "1" -> 1 [] ch = "2" -> 2 [] ch = "3" -> 3
      [] ch = "4" -> 4 [] ch = "5" -> 5 [] ch = "6" -> 6 [] ch = "7" -> 7
      [] ch = "8" -> 8 [] ch = "9" -> 9

\* the character class [ndcm] of time_pattern
Units == {"n", "d", "c", "m"}

time_mapping(unit) ==
    CASE unit = "n" -> "weeks" [] unit = "d" -> "days"
      [] unit = "c" -> "hours" [] unit = "m" -> "minutes"

\* \d+ is greedy: the first index at or after i that holds no digit
RECURSIVE DigitsEnd(_, _)
DigitsEnd(s, i) ==
    IF i <= Len(s) /\ s[i] \in Digits THEN DigitsEnd(s, i + 1) ELSE i

\* time_pattern.findall(time_string): scan left to right; a match at i is a
\* non-empty digit run followed by a unit letter; after a match the scan goes
\* on behind it, after a failure at i it goes on at i + 1.
RECURSIVE findall(_, _)
findall(s, i) ==
    IF i > Len(s) THEN <<>>
    ELSE LET j == DigitsEnd(s, i) IN
         IF j > i /\ j <= Len(s) /\ s[j] \in Units
         THEN <<[amount |-> SubSeq(s, i, j - 1), unit |-> s[j]]>> \o findall(s, j + 1)
         ELSE findall(s, i + 1)

\* int(amount)
RECURSIVE int(_)
int(ds) ==
    IF ds = <<>> THEN 0
    ELSE 10 * int(SubSeq(ds, 1, Len(ds) - 1)) + DigitVal(ds[Len(ds)])

\* timedelta's keyword defaults
NoKwargs == [weeks |-> 0, days |-> 0, hours |-> 0, minutes |-> 0]

\* the loop of lines 43-45 over the remaining tokens
RECURSIVE time_kwargs(_, _)
time_kwargs(tokens, kw) ==
    IF tokens = <<>> THEN kw
    ELSE LET tok == Head(tokens) IN
         time_kwargs(Tail(tokens),
                     IF tok.unit \in Units
                     THEN [kw EXCEPT ![time_mapping(tok.unit)] = int(tok.amount)]
                     ELSE kw)

\* datetime.timedelta allows at most this many days
MaxTimedeltaDays == 999999999

\* timedelta(**kw): normalised to days and seconds; OverflowError beyond the
\* day limit.  Hours and minutes are carried into days before multiplying.
timedelta(kw) ==
    LET secs == (kw.hours % 24) * 3600 + (kw.minutes % 1440) * 60
        d    == kw.weeks * 7 + kw.days + (kw.hours \div 24)
                + (kw.minutes \div 1440) + (secs \div 86400)
    IN  IF d > MaxTimedeltaDays THEN Raise("OverflowError")
        ELSE [t |-> "timedelta", days |-> d, seconds |-> secs % 86400]

parse_time_string(x) ==
    IF ~Truthy(x) THEN timedelta(NoKwargs)
    ELSE IF x.t # "str" THEN Raise("TypeError")   \* re: expected string
    ELSE timedelta(time_kwargs(findall(x.v, 1), NoKwargs))

-----------------------------------------------------------------------------
(* get_custom_field_value, src/main.py 25-32 *)

List(fs) == [t |-> "list", v |-> fs]

\* a or b
Or(a, b) == IF Truthy(a) THEN a ELSE b

\* value.get('presentation') or value.get('name')
DictValue(value) == Or(Get(value.presentation, None), Get(value.name, None))

RECURSIVE FirstMatch(_, _)
FirstMatch(fs, name) ==
    IF fs = <<>> THEN None
    ELSE IF Head(fs).name = name
         THEN LET value == Head(fs).value IN
              IF value.t = "dict" THEN DictValue(value) ELSE value
         ELSE FirstMatch(Tail(fs), name)

get_custom_field_value(cf, name) ==
    IF cf.t # "list" THEN Raise("TypeError")   \* 'NoneType' is not iterable
    ELSE FirstMatch(cf.v, name)

-----------------------------------------------------------------------------
(* The record -> Issue mapping of get_issues, src/main.py 75-106 *)

\* The four custom field names of lines 81-85 (Cyrillic in the source)
StatusField    == "Status DEV"
EstimationField == "Otsenka"
TimeSpentField == "Realno zatrachennoe vremya"
StartDateField == "Data nachala"

NA == Str(<<"N", "/", "A">>)

EmptyDict == [t |-> "dict"]

\* obj.get(key, default)
DictGet(obj, key, default) ==
    IF key \in DOMAIN obj /\ obj[key] # Missing THEN obj[key] ELSE default

\* datetime.fromtimestamp(int(ms) / 1000): whole seconds and microseconds
fromtimestamp(ms) ==
    [t |-> "datetime", sec |-> ms \div 1000, usec |-> (ms % 1000) * 1000]

\* class Issue(BaseModel), lines 13-22: str fields reject None, Optional[str]
\* fields accept it
Issue(issue_id, summary, description, project, reporter, status, start_date, estimation, time_spent) ==
    IF /\ issue_id.t = "str" /\ summary.t = "str"
       /\ project.t = "str"  /\ reporter.t = "str"
       /\ description.t \in {"str", "None"}
       /\ status.t \in {"str", "None"}
    THEN [t |-> "Issue", issue_id |-> issue_id, summary |-> summary,
          description |-> description, project |-> project,
          reporter |-> reporter, status |-> status, start_date |-> start_date,
          estimation |-> estimation, time_spent |-> time_spent]
    ELSE Raise("ValidationError")

\* The body of the for loop, lines 75-106, for one record: the Issue that is
\* appended, or the exception that leaves get_issues
MakeIssue(rec) ==
    LET issue_id    == DictGet(rec, "idReadable", NA)
        summary     == DictGet(rec, "summary", NA)
        description == DictGet(rec, "description", NA)
        projectObj  == DictGet(rec, "project", EmptyDict)
        reporterObj == DictGet(rec, "reporter", EmptyDict)
        cf          == DictGet(rec, "customFields", List(<<>>))
        status      == get_custom_field_value(cf, StatusField)
        estimation  == get_custom_field_value(cf, EstimationField)
        time_spent  == get_custom_field_value(cf, TimeSpentField)
        start_date_timestamp == get_custom_field_value(cf, StartDateField)
    IN  IF projectObj.t # "dict" THEN Raise("AttributeError")
        ELSE IF reporterObj.t # "dict" THEN Raise("AttributeError")
        ELSE IF Raised(status) THEN status
        ELSE LET start_date == IF start_date_timestamp.t = "int"
                               THEN fromtimestamp(start_date_timestamp.v)
                               ELSE None
                 estimation_timedelta == parse_time_string(estimation)
                 time_spent_timedelta == parse_time_string(time_spent)
             IN  IF Raised(estimation_timedelta) THEN estimation_timedelta
                 ELSE IF Raised(time_spent_timedelta) THEN time_spent_timedelta
                 ELSE Issue(issue_id, summary, description,
                            DictGet(projectObj, "name", NA),
                            DictGet(reporterObj, "fullName", NA),
                            status, start_date,
                            estimation_timedelta, time_spent_timedelta)

-----------------------------------------------------------------------------
(* Inputs of the helper specifications *)

Pending == [t |-> "pending"]

\* Characters of the enumerated duration strings: digits, the four unit
\* letters, and a character that is neither
Alphabet == {"0", "1", "2", "n", "d", "c", "m", "x"}

\* Amounts around the timedelta day limit: 142857143 weeks are 1000000001 days
NearLimit == <<"1", "4", "2", "8", "5", "7", "1", "4", "2">>
OverLimit == <<"1", "4", "2", "8", "5", "7", "1", "4", "3">>

LongStrings ==
    {NearLimit \o <<"n">>, OverLimit \o <<"n">>, OverLimit \o <<"d">>,
     <<"7", "n", "x">> \o OverLimit \o <<"d">>}

TimeStrings == SeqsUpTo(Alphabet, MaxLen) \cup LongStrings

TimeInputs == {None} \cup {Str(s) : s \in TimeStrings}

\* Values a custom field may carry
ScalarValues == {None, Str(<<>>), Str(<<"x">>), PyInt(0), PyInt(5)}
DictValues ==
    {Dict(p, n) : p \in {Missing, None, Str(<<>>), Str(<<"p">>)},
                  n \in {Missing, None, Str(<<>>), Str(<<"n">>)}}
FieldValues == ScalarValues \cup DictValues
FieldNames  == {StatusField, EstimationField}
Fields == [name : FieldNames, value : FieldValues]

\* Raw records for the mapping: every combination of missing, null and
\* present for the fields the mapping reads
TopValues(present) == {Missing, None, Str(present)}
SubDicts(key) ==
    {Missing, None} \cup
    {[t |-> "dict"] @@ (key :> v) : v \in {Missing, None, Str(<<"v">>)}}
CustomFieldLists ==
    {Missing, None, List(<<>>),
     List(<<[name |-> StatusField, value |-> Dict(Missing, Str(<<"O">>))],
            [name |-> EstimationField, value |-> Dict(Str(<<"2", "d">>), Missing)],
            [name |-> StartDateField, value |-> PyInt(1500)]>>),
     List(<<[name |-> TimeSpentField, value |-> PyInt(5)]>>)}
RawIssues ==
    { [t |-> "dict", idReadable |-> i, summary |-> s, description |-> d,
       project |-> p, reporter |-> r, customFields |-> c] :
        i \in TopValues(<<"A">>), s \in TopValues(<<"s">>),
        d \in TopValues(<<"t">>), p \in SubDicts("name"),
        r \in SubDicts("fullName"), c \in CustomFieldLists }

-----------------------------------------------------------------------------
(* The remote server of the pipeline specification *)

Rec(id, summary, reporter) ==
    [t |-> "dict", idReadable |-> Str(id), summary |-> Str(summary),
     description |-> None,
     project |-> [t |-> "dict", name |-> Str(<<"P">>)],
     reporter |-> reporter,
     customFields |-> List(<<>>)]

ReporterR == [t |-> "dict", fullName |-> Str(<<"r">>)]

\* Two versions of issue A, an issue B, and a record whose reporter is null
RecA1  == Rec(<<"A">>, <<"s">>, ReporterR)
RecA2  == Rec(<<"A">>, <<"u">>, ReporterR)
RecB   == Rec(<<"B">>, <<"s">>, ReporterR)
RecBad == Rec(<<"C">>, <<"s">>, None)

Records == {RecA1, RecA2, RecB, RecBad}

\* The bodies a 200 response may carry when the server has n more records
Pages(n) == SeqsUpTo(Records, n)

\* Status codes of a response
Statuses == {200, 500}

-----------------------------------------------------------------------------
(* Storage: the issues table, src/main.py 117-173 *)

\* the row INSERT adds: id from the sequence, the rest from data_tuple
Row(id, iss) ==
    [id |-> id, issue_id |-> iss.issue_id, summary |-> iss.summary,
     description |-> iss.description, project |-> iss.project,
     reporter |-> iss.reporter, status |-> iss.status,
     start_date |-> iss.start_date, estimation |-> iss.estimation,
     time_spent |-> iss.time_spent]

\* (mutant) ON CONFLICT (issue_id) DO NOTHING
DoUpdate_nothing(row, iss) == row

\* ON CONFLICT (issue_id) DO UPDATE SET ...: every column but id and issue_id
DoUpdate(row, iss) == Row(row.id, iss)

\* (mutant) a full refresh: the table is emptied before the row is written
upsert_query_refresh(rows, id, iss) == {Row(id, iss)}

\* upsert_query on the rows the transaction sees; id is the value the
\* sequence hands out for the proposed row
upsert_query(rows, id, iss) ==
    IF \E r \in rows : r.issue_id = iss.issue_id
    THEN {IF r.issue_id = iss.issue_id THEN DoUpdate(r, iss) ELSE r : r \in rows}
    ELSE rows \cup {Row(id, iss)}

-----------------------------------------------------------------------------
(* main, get_issues, make_migrations, insert_into_postgres as actions *)

batch_size == 100

AllStages == <<"connect", "migrate", "fetch", "persist", "close">>

\* An unhandled exception ends the process: the connection goes away and the
\* server rolls its open transaction back
Crash ==
    /\ pc' = "crashed"
    /\ connOpen' = FALSE
    /\ txnOpen' = FALSE
    /\ txn' = {}

\* main, lines 176-179: psycopg2.connect
Connect ==
    /\ UNCHANGED helperVars
    /\ pc = "idle"
    /\ start' = 0 /\ all_issues' = <<>> /\ issues' = <<>> /\ idx' = 0
    /\ requested' = <<>> /\ served' = <<>> /\ lastStatus' = 0
    /\ tableAtStart' = {}
    /\ \/ /\ pc' = "connected"
          /\ connOpen' = TRUE
          /\ stages' = <<"connect">>
          /\ UNCHANGED <<txn, txnOpen>>
       \/ /\ Crash
          /\ stages' = <<>>
    /\ UNCHANGED <<committed, serial>>

\* make_migrations, lines 117-137: CREATE TABLE IF NOT EXISTS, commit
make_migrations ==
    /\ UNCHANGED helperVars
    /\ pc = "connected"
    /\ \/ /\ committed' = [committed EXCEPT !.exists = TRUE]
          /\ pc' = "migrated"
          /\ stages' = Append(stages, "migrate")
          /\ UNCHANGED <<connOpen, txn, txnOpen>>
       \/ /\ Crash
          /\ UNCHANGED <<committed, stages>>
    /\ UNCHANGED <<serial, start, all_issues, issues, idx, requested,
                   served, lastStatus, tableAtStart>>

\* get_issues, lines 51-64
get_issues_enter ==
    /\ UNCHANGED helperVars
    /\ pc = "migrated"
    /\ start' = 0
    /\ all_issues' = <<>>
    /\ pc' = "fetching"
    /\ UNCHANGED <<connOpen, committed, serial, txn, txnOpen, issues,
                   idx, requested, served, lastStatus, tableAtStart, stages>>

\* the for loop of lines 74-106: the Issues appended to acc, and whether an
\* exception left the loop
RECURSIVE MapPage(_, _)
MapPage(page, acc) ==
    IF page = <<>> THEN [raised |-> FALSE, issues |-> acc]
    ELSE LET made == MakeIssue(Head(page)) IN
         IF Raised(made) THEN [raised |-> TRUE, issues |-> acc]
         ELSE MapPage(Tail(page), Append(acc, made))

\* (mutant) a page shorter than batch_size is taken for the end of the data
ResponseOutcome_short(status, page) ==
    IF status = 200
    THEN IF page = <<>> \/ Len(page) < batch_size THEN "break" ELSE "append"
    ELSE "break"

\* (mutant) a non-200 status is raised, as response.raise_for_status() would
ResponseOutcome_raise(status, page) ==
    IF status = 200
    THEN IF page = <<>> THEN "break" ELSE "append"
    ELSE "raise"

\* What one iteration of the while loop does with a response, lines 70-111
ResponseOutcome(status, page) ==
    IF status = 200
    THEN IF page = <<>> THEN "break" ELSE "append"
    ELSE "break"

\* $skip of the request after a page that was appended, line 107
NextStart(s) == s + batch_size

\* (mutant) the pages fetched before the loop ended are thrown away
get_issues_return_discard ==
    /\ issues' = <<>>
    /\ pc' = "fetched"
    /\ stages' = Append(stages, "fetch")
    /\ UNCHANGED <<start, all_issues, connOpen, txn, txnOpen>>

\* lines 113-114: get_issues returns all_issues to main
get_issues_return ==
    /\ issues' = all_issues
    /\ pc' = "fetched"
    /\ stages' = Append(stages, "fetch")
    /\ UNCHANGED <<start, all_issues, connOpen, txn, txnOpen>>

\* The records the model's server may still hand out in this run
Budget == MaxSerial - serial - Len(all_issues)

\* One iteration of the while loop, lines 66-111: request a page, handle it
get_issues_page ==
    /\ UNCHANGED helperVars
    /\ pc = "fetching"
    /\ \E status \in Statuses :
       \E page \in IF status = 200 THEN Pages(Budget) ELSE {<<>>} :
          /\ requested' = Append(requested, [skip |-> start, top |-> batch_size])
          /\ lastStatus' = status
          /\ served' = IF status = 200 THEN Append(served, page) ELSE served
          /\ LET outcome == ResponseOutcome(status, page)
                 m == MapPage(page, all_issues)
             IN  CASE outcome = "break" -> get_issues_return
                   [] outcome = "append" /\ ~m.raised ->
                        /\ all_issues' = m.issues
                        /\ start' = NextStart(start)
                        /\ UNCHANGED <<pc, issues, stages, connOpen, txn, txnOpen>>
                   [] OTHER ->
                        /\ Crash
                        /\ all_issues' = m.issues
                        /\ UNCHANGED <<start, issues, stages>>
    /\ UNCHANGED <<committed, serial, idx, tableAtStart>>

\* line 68: requests.get raises (no connection, ...); nothing catches it
get_issues_transport_error ==
    /\ UNCHANGED helperVars
    /\ pc = "fetching"
    /\ requested' = Append(requested, [skip |-> start, top |-> batch_size])
    /\ lastStatus' = -1
    /\ Crash
    /\ UNCHANGED <<committed, serial, start, all_issues, issues, idx,
                   served, tableAtStart, stages>>

\* (mutant) every statement is committed on its own
autocommit_on == TRUE

\* psycopg2 connections do not autocommit unless asked to (line 177 asks
\* for nothing)
autocommit == FALSE

\* insert_into_postgres, line 141
insert_enter ==
    /\ UNCHANGED helperVars
    /\ pc = "fetched"
    /\ idx' = 0
    /\ tableAtStart' = committed.rows
    /\ pc' = "persisting"
    /\ UNCHANGED <<connOpen, committed, serial, txn, txnOpen, start,
                   all_issues, issues, requested, served, lastStatus, stages>>

\* One iteration of the for loop, lines 157-170: cur.execute(upsert_query, ...)
execute_upsert ==
    /\ UNCHANGED helperVars
    /\ pc = "persisting"
    /\ idx < Len(issues)
    /\ \/ /\ LET seen == IF txnOpen THEN txn ELSE committed.rows
                 rows == upsert_query(seen, serial + 1, issues[idx + 1])
             IN  /\ txn' = IF autocommit THEN {} ELSE rows
                 /\ txnOpen' = ~autocommit
                 /\ committed' = IF autocommit
                                 THEN [committed EXCEPT !.rows = rows]
                                 ELSE committed
          /\ serial' = serial + 1
          /\ idx' = idx + 1
          /\ UNCHANGED <<pc, connOpen>>
       \/ /\ Crash
          /\ UNCHANGED <<committed, serial, idx>>
    /\ UNCHANGED <<start, all_issues, issues, requested, served,
                   lastStatus, tableAtStart, stages>>

\* lines 172-173: conn.commit()
commit ==
    /\ UNCHANGED helperVars
    /\ pc = "persisting"
    /\ idx = Len(issues)
    /\ \/ /\ committed' = IF txnOpen THEN [committed EXCEPT !.rows = txn]
                          ELSE committed
          /\ txnOpen' = FALSE
          /\ txn' = {}
          /\ pc' = "persisted"
          /\ stages' = Append(stages, "persist")
          /\ UNCHANGED connOpen
       \/ /\ Crash
          /\ UNCHANGED <<committed, stages>>
    /\ UNCHANGED <<serial, start, all_issues, issues, idx, requested,
                   served, lastStatus, tableAtStart>>

\* main, line 189: conn.close()
close ==
    /\ UNCHANGED helperVars
    /\ pc = "persisted"
    /\ connOpen' = FALSE
    /\ pc' = "closed"
    /\ stages' = Append(stages, "close")
    /\ UNCHANGED <<committed, serial, txn, txnOpen, start, all_issues,
                   issues, idx, requested, served, lastStatus, tableAtStart>>

\* the process is over; the operator may run the script again
exit ==
    /\ UNCHANGED helperVars
    /\ pc \in {"closed", "crashed"}
    /\ pc' = "idle"
    /\ UNCHANGED <<connOpen, committed, serial, txn, txnOpen, start,
                   all_issues, issues, idx, requested, served, lastStatus,
                   tableAtStart, stages>>

-----------------------------------------------------------------------------
(* Specifications *)

InitPipe ==
    /\ pc = "idle" /\ connOpen = FALSE
    /\ committed = [exists |-> FALSE, rows |-> {}]
    /\ serial = 0 /\ txn = {} /\ txnOpen = FALSE
    /\ start = 0 /\ all_issues = <<>> /\ issues = <<>> /\ idx = 0
    /\ requested = <<>> /\ served = <<>> /\ lastStatus = 0
    /\ tableAtStart = {} /\ stages = <<>>

IdleParse == time_string = None /\ parsed = Pending
IdleField == custom_fields = List(<<>>) /\ field_name = StatusField /\ field_value = Pending
IdleMap   == issue = EmptyDict /\ mapped = Pending

\* The pipeline: runs of main against a server and a database
Init == InitPipe /\ IdleParse /\ IdleField /\ IdleMap

Next ==
    \/ Connect
    \/ make_migrations
    \/ get_issues_enter
    \/ get_issues_page
    \/ get_issues_transport_error
    \/ insert_enter
    \/ execute_upsert
    \/ commit
    \/ close
    \/ exit

Spec == Init /\ [][Next]_vars

\* parse_time_string applied to one input
InitParse == InitPipe /\ IdleField /\ IdleMap /\ time_string \in TimeInputs /\ parsed = Pending

Parse ==
    /\ parsed = Pending
    /\ parsed' = parse_time_string(time_string)
    /\ UNCHANGED <<time_string, pipeVars, fieldVars, mapVars>>

SpecParse == InitParse /\ [][Parse]_vars

\* get_custom_field_value applied to one field list and name
InitField ==
    /\ InitPipe /\ IdleParse /\ IdleMap
    /\ custom_fields \in {List(fs) : fs \in SeqsUpTo(Fields, MaxFields)}
    /\ field_name \in FieldNames
    /\ field_value = Pending

Lookup ==
    /\ field_value = Pending
    /\ field_value' = get_custom_field_value(custom_fields, field_name)
    /\ UNCHANGED <<custom_fields, field_name, pipeVars, parseVars, mapVars>>

SpecField == InitField /\ [][Lookup]_vars

\* the record -> Issue mapping applied to one raw record
InitMap == InitPipe /\ IdleParse /\ IdleField /\ issue \in RawIssues /\ mapped = Pending

Map ==
    /\ mapped = Pending
    /\ mapped' = MakeIssue(issue)
    /\ UNCHANGED <<issue, pipeVars, parseVars, fieldVars>>

SpecMap == InitMap /\ [][Map]_vars

-----------------------------------------------------------------------------
(* Vocabulary of the properties *)

\* get_issues has returned to main in this run
FetchDone == Len(stages) >= 3

\* insert_into_postgres has committed in this run
PersistDone == Len(stages) >= 4

\* the Issue of every record of a list, in the list's order
Mapped(recs) == [i \in 1..Len(recs) |-> MakeIssue(recs[i])]

\* every record the server has handed out in this run, in the order served
ServedRecords == Concat(served)

Last(seq) == seq[Len(seq)]

\* the issue_ids of the batch main hands to insert_into_postgres
BatchIds == {issues[i].issue_id : i \in 1..Len(issues)}

\* the last entity of the batch that carries issue_id id
LastWith(id) ==
    issues[CHOOSE i \in 1..Len(issues) :
              /\ issues[i].issue_id = id
              /\ \A j \in (i + 1)..Len(issues) : issues[j].issue_id # id]

IssueIds(rows) == {r.issue_id : r \in rows}

IsPrefix(a, b) == Len(a) <= Len(b) /\ a = SubSeq(b, 1, Len(a))

-----------------------------------------------------------------------------
(* Properties of parse_time_string, get_custom_field_value and the mapping *)

\* the positions of the unit letter u that close an <integer><unit> token
TokenEnds(s, u) == {j \in 2..Len(s) : s[j] = u /\ s[j - 1] \in Digits}

\* the decimal value of the digits s[i..e]
RECURSIVE Decimal(_, _, _)
Decimal(s, i, e) ==
    IF i > e THEN 0 ELSE 10 * Decimal(s, i, e - 1) + DigitVal(s[e])

\* the integer of the token that ends at position j: the digits before j
TokenAmount(s, j) ==
    LET i == CHOOSE k \in 1..(j - 1) :
                 /\ \A x \in k..(j - 1) : s[x] \in Digits
                 /\ k = 1 \/ s[k - 1] \notin Digits
    IN  Decimal(s, i, j - 1)

\* the integer of the last token of unit u, zero when there is none
LastAmount(s, u) ==
    LET ends == TokenEnds(s, u) IN
    IF ends = {} THEN 0
    ELSE TokenAmount(s, CHOOSE j \in ends : \A k \in ends : k <= j)

TextOf(x) == IF x.t = "str" THEN x.v ELSE <<>>

\* C6: for every input string (and for null) parse_time_string raises no
\* error and returns the duration made of, per unit, the integer of the last
\* token of that unit, zero for a unit without a token.
C6_ParseTotal ==
    parsed # Pending =>
        LET s == TextOf(time_string)
            w == LastAmount(s, "n")
            d == LastAmount(s, "d")
            h == LastAmount(s, "c")
            m == LastAmount(s, "m")
        IN  /\ parsed.t = "timedelta"
            /\ parsed.days = 7 * w + d + ((60 * h + m) \div 1440)
            /\ parsed.seconds = ((60 * h + m) % 1440) * 60

\* C7: get_custom_field_value returns the absent marker exactly when no
\* record of the list has the target name, so a field that is present but
\* empty (an empty string, or a structured value whose presentation and name
\* are empty or missing) can be told from a field that is not in the list.
\* A field whose value is a bare null is left out of the statement.
C7_AbsentIffNoField ==
    field_value # Pending =>
        LET hits == {i \in 1..Len(custom_fields.v) :
                        custom_fields.v[i].name = field_name}
            first == custom_fields.v[CHOOSE i \in hits : \A k \in hits : i <= k]
        IN  /\ hits = {} => field_value = None
            /\ (hits # {} /\ first.value # None) => field_value # None

\* the value of a top-level key, "N/A" where it is missing or null
OrNA(x) == IF x \in {Missing, None} THEN NA ELSE x

\* the value of key k of a sub-object, "N/A" where the object or the key is
\* missing or null
SubOrNA(obj, k) == IF obj \in {Missing, None} THEN NA ELSE OrNA(obj[k])

\* C8: whatever subset of idReadable, summary, description, project,
\* project.name, reporter, reporter.fullName and customFields is missing or
\* null, the mapping raises nothing and yields an Issue with "N/A" for the
\* absent values and the absent marker for the custom field values.
C8_MappingNeverRaises ==
    (mapped # Pending /\ issue.customFields \in {Missing, None, List(<<>>)}) =>
        /\ mapped.t = "Issue"
        /\ mapped.issue_id = OrNA(issue.idReadable)
        /\ mapped.summary = OrNA(issue.summary)
        /\ mapped.description = OrNA(issue.description)
        /\ mapped.project = SubOrNA(issue.project, "name")
        /\ mapped.reporter = SubOrNA(issue.reporter, "fullName")
        /\ mapped.status = None
        /\ mapped.start_date = None

-----------------------------------------------------------------------------
(* Properties of get_issues *)

\* every response of this run so far had status 200
AllOk == requested # <<>> /\ lastStatus = 200

\* an exception left get_issues while it handled a 200 response
RaisedInMapping == AllOk /\ pc = "crashed" /\ ~FetchDone

\* C1: a server that answers with status 200 throughout, non-empty pages and
\* then an empty one, makes get_issues return the Issues of all records of
\* the non-empty pages in the order served, and stop at the empty page.
C1_ReturnsAllPages ==
    /\ ~RaisedInMapping
    /\ (AllOk /\ FetchDone) =>
          /\ issues = Mapped(ServedRecords)
          /\ Last(served) = <<>>
          /\ \A n \in 1..(Len(served) - 1) : served[n] # <<>>
          /\ Len(requested) = Len(served)

\* a page request of this run was answered with a non-200 status
HttpFailed == lastStatus \notin {0, 200, -1}

\* C2: on a non-200 status after k non-empty pages get_issues makes no
\* further request, raises nothing, and returns the Issues of exactly the
\* records of those k pages, in order.
C2_FailureKeepsPages ==
    HttpFailed =>
        /\ FetchDone
        /\ pc # "fetching"
        /\ Len(requested) = Len(served) + 1
        /\ \A n \in 1..Len(served) : served[n] # <<>>
        /\ issues = Mapped(ServedRecords)
        /\ \A i \in 1..Len(issues) : issues[i].t = "Issue"

C2_Witness ==
    /\ HttpFailed
    /\ Len(served) = 2
    /\ Len(served[1]) = 2
    /\ Len(issues) = 3
    /\ issues[1] # issues[2]

\* every record served so far has been appended to all_issues
AllAppended == Len(all_issues) = Len(ServedRecords)

\* C5: the n-th request asks for offset (n-1) * 100 with page size 100; the
\* loop ends only on an empty page or a non-200 status; after a page with
\* fewer than 100 records has been appended the loop is still requesting;
\* a run of k non-empty pages and an empty one makes k + 1 requests.
C5_Pagination ==
    /\ \A n \in 1..Len(requested) :
          requested[n] = [skip |-> (n - 1) * 100, top |-> 100]
    /\ FetchDone => (lastStatus # 200 \/ Last(served) = <<>>)
    /\ (AllOk /\ Last(served) # <<>> /\ Len(Last(served)) < 100 /\ AllAppended)
          => pc = "fetching"
    /\ (AllOk /\ FetchDone) =>
          Len(requested) = Cardinality({n \in 1..Len(served) : served[n] # <<>>}) + 1

C5_Witness ==
    /\ AllOk /\ FetchDone
    /\ Len(served) = 3
    /\ Len(served[1]) = 1 /\ Len(served[2]) = 2
    /\ Len(requested) = 3
    /\ requested[3].skip = 200

-----------------------------------------------------------------------------
(* Properties of insert_into_postgres *)

\* C3: once insert_into_postgres has committed a batch, the table holds one
\* row for each issue_id of the batch, and that row's other columns are
\* those of the last entity of the batch with that issue_id.
C3_UpsertLastWins ==
    PersistDone =>
        \A id \in BatchIds :
            LET hits == {r \in committed.rows : r.issue_id = id} IN
            /\ Cardinality(hits) = 1
            /\ \A r \in hits : r = Row(r.id, LastWith(id))

\* a committed batch that names an issue_id twice with different values,
\* for an issue_id an earlier run had already stored with yet other values
C3_Witness ==
    /\ PersistDone
    /\ Len(issues) >= 2
    /\ issues[1].issue_id = issues[2].issue_id
    /\ issues[1] # issues[2]
    /\ \E r \in tableAtStart :
          /\ r.issue_id = issues[2].issue_id
          /\ r # Row(r.id, LastWith(r.issue_id))

\* insert_into_postgres is running or was left by an exception
InPersist == FetchDone /\ ~PersistDone /\ pc \in {"persisting", "crashed"}

\* C4: the statements of a batch run in one transaction that is committed
\* once, after the last statement; until then, and for good if a statement
\* fails, the committed table is what it was when the batch started.
C4_AllOrNothing ==
    /\ InPersist => committed.rows = tableAtStart
    /\ (pc = "persisting" /\ idx > 0) => txnOpen
    /\ PersistDone => (idx = Len(issues) /\ ~txnOpen)

\* a statement failed after an earlier statement of the batch had added a row
C4_Witness ==
    /\ pc = "crashed"
    /\ InPersist
    /\ idx >= 1 /\ idx < Len(issues)
    /\ issues[1].issue_id \notin IssueIds(tableAtStart)

\* C10: persistence leaves every row alone whose issue_id is not in the
\* batch; an empty batch leaves the table as it is; the set of issue_ids in
\* the table never shrinks.
C10_OtherRowsKept ==
    [][ /\ IssueIds(committed.rows) \subseteq IssueIds(committed.rows')
        /\ \A r \in committed.rows :
              r.issue_id \notin BatchIds => r \in committed.rows'
        /\ issues = <<>> => committed.rows' = committed.rows ]_vars

\* a committed batch that changed the table next to a row it does not name
C10_Witness ==
    /\ PersistDone
    /\ committed.rows # tableAtStart
    /\ \E r \in tableAtStart : r.issue_id \notin BatchIds /\ r \in committed.rows

-----------------------------------------------------------------------------
(* Properties of main *)

\* C9: the stages of a run happen in the order connect, schema
\* initialisation (committed), fetch, persist, close, each after the one
\* before it has completed; a non-200 status during fetch ends neither the
\* run nor a stage: what was fetched before it is persisted and the
\* connection is then closed.
C9_StageOrder ==
    /\ IsPrefix(stages, AllStages)
    /\ pc \in {"migrated", "fetching", "fetched", "persisting", "persisted"}
          => (connOpen /\ committed.exists)
    /\ requested # <<>> => (Len(stages) >= 2 /\ committed.exists)
    /\ pc \in {"persisting", "persisted", "closed"} => FetchDone
    /\ idx > 0 => FetchDone
    /\ pc = "closed" => (stages = AllStages /\ ~connOpen)
    /\ HttpFailed => (FetchDone /\ issues = Mapped(ServedRecords))
    /\ (HttpFailed /\ pc = "closed") =>
          \A i \in 1..Len(issues) :
              \E r \in committed.rows : r = Row(r.id, LastWith(issues[i].issue_id))

\* a run that met a non-200 status after two records and ended closed
C9_Witness ==
    /\ HttpFailed
    /\ pc = "closed"
    /\ Len(issues) = 2
    /\ issues[1].issue_id # issues[2].issue_id

====
